---- MODULE Spec2Model ----
(***************************************************************************)
(* WorkerManager of seyfert (websocket/discord/workermanager.ts): shard    *)
(* partitioning, worker registry, nonce-correlated request/reply with a    *)
(* 60 s deadline, the WORKER_READY barrier and the connect queue.          *)
(***************************************************************************)
EXTENDS Integers, Sequences, FiniteSets, TLC

\* ------------------------------------------------------------------ bounds
MaxShards == 4
MaxPerWorker == 2
MaxWorkers == 3
MaxUuids == 2
MaxRequests == 2
MaxPushes == 3
MaxConcurrency == 2
MaxTicks == 4
MaxCalls == 2
MaxObjects == 2
MaxTasks == 2

\* undefined option / absent field
Undef == -1
NoNonce == <<>>
NoValue == <<>>

\* the state of a promise nobody has settled and no timer guards
Unsettled == [status |-> "none", resolves |-> 0, rejects |-> 0, timer |-> FALSE, value |-> NoValue]

VARIABLES
    options,     \* this.options (totalShards, shardStart, shardEnd, shardsPerWorker, workers, info.shards)
    pc,          \* "init" before start(), "running" after it returned, "failed" after it threw
    registry,    \* the Map<number, Worker & {ready}> itself, in insertion order
    promises,    \* this.promises: nonce -> the promise stored under it
    requests,    \* promise -> its state, for the promises a timer or a table entry still refers to
    connectQueue,\* this.connectQueue: pushed admission callbacks not yet started
    pushed,      \* number of callbacks pushed so far (push ticket)
    lastAllowed, \* push ticket of the latest callback that posted ALLOW_CONNECT
    readySince,  \* workers whose WORKER_READY was handled since the latest BOT_READY
    gate,        \* the ConnectQueue object: its interval, concurrency and free admissions
    now,         \* the clock, in ms since construction
    timeline,    \* the times at which callbacks were pushed and at which they were started
    calls,       \* cache adapter and REST calls the manager awaits, oldest first
    values,      \* EventHandler.values: event name -> the event object registered under it
    objects,     \* every event object loaded so far: its data.once, its fired flag, its runs
    tasks,       \* the runEvent and runCustom calls suspended at an await
    invoked,     \* what the latest EventHandler step called, in order
    sent,        \* messages posted to workers by the latest step, in order
    ret          \* outcome of the latest call or handler

vars == <<options, pc, registry, promises, requests, connectQueue, pushed, lastAllowed,
          readySince, gate, now, timeline, calls, values, objects, tasks, invoked, sent, ret>>

\* the state of the EventHandler
handlerVars == <<values, objects, tasks, invoked>>

\* ---------------------------------------------------------------- getters
Nullish(a, b) == IF a = Undef THEN b ELSE a

totalShards(o) == Nullish(o.totalShards, o.infoShards)

shardStart(o) == Nullish(o.shardStart, 0)

shardEnd(o) == Nullish(o.shardEnd, totalShards(o))

shardsPerWorker(o) == o.shardsPerWorker

workers(o) == o.workers

\* a bug variant of the getter below: another field of info is returned
concurrencyOfShards(o) == o.infoShards

\* info.session_start_limit.max_concurrency
concurrency(o) == o.maxConcurrency

\* Math.floor(a / b) for b > 0 (TLA+ \div rounds toward minus infinity)
Floor(a, b) == a \div b

\* Math.ceil(a / b) for b > 0
Ceil(a, b) == (a + b - 1) \div b

\* ------------------------------------------------------------- partition
Min(a, b) == IF a < b THEN a ELSE b

\* new Array(n): n empty slots
NewArray(n) == [k \in 1..n |-> Undef]

\* SequentialBucket.chunk: consecutive slices of `size` elements, last one shorter
RECURSIVE chunk(_, _)
chunk(array, size) ==
    IF Len(array) = 0 THEN <<>>
    ELSE <<SubSeq(array, 1, Min(size, Len(array)))>>
         \o chunk(SubSeq(array, Min(size, Len(array)) + 1, Len(array)), size)

\* a bug variant of prepareSpaces: the shardStart offset is forgotten
prepareSpacesNoOffset(o) ==
    LET chunks == chunk(NewArray(shardEnd(o) - shardStart(o)), o.shardsPerWorker)
    IN [index \in 1..Len(chunks) |->
           [i \in 1..Len(chunks[index]) |->
               (i - 1) + (IF index - 1 > 0 THEN (index - 1) * o.shardsPerWorker ELSE 0)]]

\* prepareSpaces(): groups are 1-based sequences here, group index+1 is worker index
prepareSpaces(o) ==
    LET chunks == chunk(NewArray(shardEnd(o) - shardStart(o)), o.shardsPerWorker)
    IN [index \in 1..Len(chunks) |->
           [i \in 1..Len(chunks[index]) |->
               (i - 1) + (IF index - 1 > 0 THEN (index - 1) * o.shardsPerWorker ELSE 0)
                       + shardStart(o)]]

\* calculateWorkerId(shardId): [threw, value]
calculateWorkerId(o, shardId) ==
    LET workerId == Floor(shardId - shardStart(o), shardsPerWorker(o))
    IN IF workerId >= workers(o)
       THEN [threw |-> "Invalid shardId", value |-> Undef]
       ELSE [threw |-> "none", value |-> workerId]

\* --------------------------------------------------------------- registry
Keys(reg) == {reg[k].id : k \in DOMAIN reg}

Has(reg, id) == id \in Keys(reg)

Msg(to, type, nonce, shardId, data) ==
    [to |-> to, type |-> type, nonce |-> nonce, shardId |-> shardId, data |-> data]

\* createWorker + this.set(i, worker): a handle with no ready flag
createWorker(id, shards) == [id |-> id, shards |-> shards, ready |-> FALSE]

\* registry after prepareWorkers(shards): one handle per missing index, in loop order
RECURSIVE prepareWorkersFrom(_, _, _)
prepareWorkersFrom(reg, shards, i) ==
    IF i >= Len(shards) THEN reg
    ELSE prepareWorkersFrom(
            IF Has(reg, i) THEN reg ELSE Append(reg, createWorker(i, shards[i + 1])),
            shards, i + 1)

\* a bug variant of prepareWorkers: a handle is created and stored for every index, also
\* for one that has a handle (Map.set keeps the position of an existing key)
RECURSIVE prepareWorkersFromAlways(_, _, _)
prepareWorkersFromAlways(reg, shards, i) ==
    IF i >= Len(shards) THEN reg
    ELSE prepareWorkersFromAlways(
            IF Has(reg, i)
            THEN [k \in DOMAIN reg |->
                     IF reg[k].id = i THEN createWorker(i, shards[i + 1]) ELSE reg[k]]
            ELSE Append(reg, createWorker(i, shards[i + 1])),
            shards, i + 1)

prepareWorkersAlways(reg, shards) == prepareWorkersFromAlways(reg, shards, 0)

prepareWorkers(reg, shards) == prepareWorkersFrom(reg, shards, 0)

\* the SPAWN_SHARDS messages of prepareWorkers(shards), one per index, in loop order
spawnShards(o, shards) ==
    [k \in 1..Len(shards) |-> Msg(k - 1, "SPAWN_SHARDS", NoNonce, Undef, <<"shards", totalShards(o)>>)]

\* ------------------------------------------------------------------ start
\* the interval start() builds the connect queue with (5.5e3 ms)
intervalTime == 5500

\* the connectQueue field before start() assigns it
NoQueue == [intervalTime |-> 0, concurrency |-> 0, remaining |-> 0, refills |-> <<>>]

\* new ConnectQueue(intervalTime, concurrency): every admission is free; refills are the
\* times at which an admission in use becomes free again
ConnectQueue(interval, limit) ==
    [intervalTime |-> interval, concurrency |-> limit, remaining |-> limit, refills |-> <<>>]

\* options after the ??= assignments of start()
resolveOptions(o) ==
    LET e == Nullish(o.shardEnd, o.infoShards)
        t == Nullish(o.totalShards, e)
    IN [o EXCEPT !.shardEnd = e, !.totalShards = t,
                 !.workers = Nullish(o.workers, Ceil(t, o.shardsPerWorker))]

\* the guard of start(): totalShards / shardsPerWorker > workers
notEnoughWorkers(o) == totalShards(o) > workers(o) * shardsPerWorker(o)

\* op: the call or handler; threw: its error or "none"; arg: its shard, worker, slot or
\* ticket argument; nonce: the nonce it carried or minted; settled: the promise it settled;
\* spaces, id: what prepareSpaces, calculateWorkerId returned; workerId, shardId: the
\* fields of that name in the message handled; msgNonce: the nonce of the message when
\* the handler mints one of its own; name: the event name an EventHandler call was given
Ret(op, threw, arg) ==
    [op |-> op, threw |-> threw, arg |-> arg, nonce |-> NoNonce, settled |-> Unsettled,
     spaces |-> <<>>, id |-> Undef, workerId |-> Undef, shardId |-> Undef,
     msgNonce |-> NoNonce, name |-> ""]

Start ==
    /\ pc = "init"
    /\ LET o == resolveOptions(options) IN
        /\ options' = o
        /\ gate' = ConnectQueue(intervalTime, concurrency(o))
        /\ IF notEnoughWorkers(o)
           THEN /\ pc' = "failed"
                /\ ret' = Ret("start", "Cannot create enough shards", Undef)
                /\ sent' = <<>>
                /\ UNCHANGED registry
           ELSE /\ pc' = "running"
                /\ registry' = prepareWorkers(registry, prepareSpaces(o))
                /\ sent' = spawnShards(o, prepareSpaces(o))
                /\ ret' = [Ret("start", "none", Undef) EXCEPT !.spaces = prepareSpaces(o)]
    /\ UNCHANGED <<promises, requests, connectQueue, pushed, lastAllowed, readySince, now,
                   timeline, calls, handlerVars>>

\* --------------------------------------------------------- configurations
OptNat(lo, hi) == {Undef} \cup (lo..hi)

\* every option structure within the bounds whose shard range is not empty
AllOptions ==
    {o \in [totalShards : OptNat(1, MaxShards), shardStart : OptNat(0, MaxShards - 1),
            shardEnd : OptNat(1, MaxShards), shardsPerWorker : 1..MaxPerWorker,
            workers : OptNat(1, MaxWorkers), infoShards : 1..MaxShards,
            maxConcurrency : {1}] :
        shardEnd(resolveOptions(o)) > shardStart(o)}

InitCommon ==
    /\ pc = "init"
    /\ registry = <<>>
    /\ promises = <<>>
    /\ requests = <<>>
    /\ connectQueue = <<>>
    /\ pushed = 0
    /\ lastAllowed = 0
    /\ readySince = {}
    /\ gate = NoQueue
    /\ now = 0
    /\ timeline = [pushes |-> <<>>, starts |-> <<>>]
    /\ calls = <<>>
    /\ values = <<>>
    /\ objects = <<>>
    /\ tasks = <<>>
    /\ invoked = <<>>
    /\ sent = <<>>
    /\ ret = Ret("new", "none", Undef)

\* public calls on a started manager, used to exercise the partition
CallPrepareSpaces ==
    /\ pc # "init"
    /\ ret' = [Ret("prepareSpaces", "none", Undef) EXCEPT !.spaces = prepareSpaces(options)]
    /\ sent' = <<>>
    /\ UNCHANGED <<options, pc, registry, promises, requests, connectQueue, pushed,
                   lastAllowed, readySince, gate, now, timeline, calls, handlerVars>>

CallCalculateWorkerId(shardId) ==
    /\ pc # "init"
    /\ ret' = [Ret("calculateWorkerId", calculateWorkerId(options, shardId).threw, shardId)
               EXCEPT !.id = calculateWorkerId(options, shardId).value]
    /\ sent' = <<>>
    /\ UNCHANGED <<options, pc, registry, promises, requests, connectQueue, pushed,
                   lastAllowed, readySince, gate, now, timeline, calls, handlerVars>>

\* prepareWorkers(shards), called again on a started manager
CallPrepareWorkers(shards) ==
    /\ pc # "init"
    /\ registry' = prepareWorkers(registry, shards)
    /\ sent' = spawnShards(options, shards)
    /\ ret' = [Ret("prepareWorkers", "none", Undef) EXCEPT !.spaces = shards]
    /\ UNCHANGED <<options, pc, promises, requests, connectQueue, pushed, lastAllowed,
                   readySince, gate, now, timeline, calls, handlerVars>>

InitConfig == InitCommon /\ options \in AllOptions

NextConfig ==
    \/ Start
    \/ CallPrepareSpaces
    \/ \E shardId \in 0..MaxShards : CallCalculateWorkerId(shardId)

SpecConfig == InitConfig /\ [][NextConfig]_vars

\* ------------------------------------------------------- pending requests
\* randomUUID(): a first block and the remaining blocks; two uuids can share the first
UUIDs == {<<(k + 1) \div 2, k>> : k \in 1..MaxUuids}

\* large ? uuid : uuid.split('-')[0]
nonceOf(uuid, large) == IF large THEN uuid ELSE <<uuid[1]>>

\* a bug variant of generateNonce: the collision test is missing
generateNonceUnchecked(large, proms) == {nonceOf(uuid, large) : uuid \in UUIDs}

\* generateNonce(large): the nonces it can return, redrawn while promises.has(nonce)
generateNonce(large, proms) ==
    {nonceOf(uuid, large) : uuid \in UUIDs} \ DOMAIN proms

\* every string a reply can carry as nonce
Nonces == {nonceOf(uuid, large) : uuid \in UUIDs, large \in BOOLEAN}

\* reply payloads
ValTrue == <<"true">>
Data == {<<"data">>}
ErrorVal(message) == <<"error", message>>

\* the message argument of generateSendPromise at each call site
timeoutMessage(kind) ==
    CASE kind = "send" -> "Shard send payload timeout"
      [] kind = "shardInfo" -> "Get shard info timeout"
      [] kind = "workerInfo" -> "Get worker info timeout"
      [] kind = "eval" -> "Eval timeout"

mapSet(m, k, v) == [x \in DOMAIN m \cup {k} |-> IF x = k THEN v ELSE m[x]]

mapDelete(m, k) == [x \in DOMAIN m \ {k} |-> m[x]]

\* the promise of one call: what it waits for, and for an EVAL who asked with which nonce
Waiter(kind, nonce, from, fromNonce) ==
    [kind |-> kind, nonce |-> nonce, from |-> from, fromNonce |-> fromNonce]

\* a bug variant of generateSendPromise: no deadline is armed
generateSendPromiseNoTimer(proms, reqs, nonce, kind, from, fromNonce) ==
    [requests |-> mapSet(reqs, Waiter(kind, nonce, from, fromNonce),
                         [Unsettled EXCEPT !.status = "pending"]),
     promises |-> mapSet(proms, nonce, Waiter(kind, nonce, from, fromNonce))]

\* generateSendPromise(nonce, message): a new promise with its timer armed, stored under nonce
generateSendPromise(proms, reqs, nonce, kind, from, fromNonce) ==
    [requests |-> mapSet(reqs, Waiter(kind, nonce, from, fromNonce),
                         [Unsettled EXCEPT !.status = "pending", !.timer = TRUE]),
     promises |-> mapSet(proms, nonce, Waiter(kind, nonce, from, fromNonce))]

\* a bug variant of clearTimeout: the timer stays armed
clearTimeoutForgotten(reqs, w) == reqs

\* clearTimeout(entry.timeout)
clearTimeout(reqs, w) == [reqs EXCEPT ![w].timer = FALSE]

\* entry.resolve(value); a settled promise keeps its first outcome
resolve(reqs, w, val) ==
    [reqs EXCEPT ![w].resolves = @ + 1,
                 ![w].status = IF @ = "pending" THEN "resolved" ELSE @,
                 ![w].value = IF reqs[w].status = "pending" THEN val ELSE @]

\* rej(new Error(message)) in the timer callback, which has then fired
reject(reqs, w) ==
    [reqs EXCEPT ![w].rejects = @ + 1,
                 ![w].timer = FALSE,
                 ![w].status = IF @ = "pending" THEN "rejected" ELSE @,
                 ![w].value = IF reqs[w].status = "pending"
                              THEN ErrorVal(timeoutMessage(w.kind)) ELSE @]

\* a promise that neither a table entry nor an armed timer refers to can no longer be settled
collect(proms, reqs) ==
    [w \in {x \in DOMAIN reqs : reqs[x].timer \/ (\E n \in DOMAIN proms : proms[n] = x)} |->
        reqs[w]]

Quiet == UNCHANGED <<options, pc, registry, promises, requests, connectQueue, pushed,
                     lastAllowed, readySince, gate, now, timeline, calls, handlerVars>>

\* the setTimeout callback of generateSendPromise for promise w, after 60 s
TimeoutOf(w) ==
    /\ requests[w].timer
    /\ promises' = mapDelete(promises, w.nonce)
    /\ requests' = collect(promises', reject(requests, w))
    /\ sent' = <<>>
    /\ ret' = [Ret("timeout",
                   IF w.kind = "eval" /\ requests[w].status = "pending"
                   THEN "unhandled rejection" ELSE "none", Undef)
                  EXCEPT !.nonce = w.nonce, !.settled = reject(requests, w)[w]]
    /\ UNCHANGED <<options, pc, registry, connectQueue, pushed, lastAllowed, readySince, gate, now, timeline, calls, handlerVars>>

\* the deadline of a promise stored under nonce elapses
Timeout(nonce) == \E w \in DOMAIN requests : w.nonce = nonce /\ TimeoutOf(w)

\* a bug variant of the callback below: the reply carries the nonce the manager minted
evalRelayMinted(reg, w, state, val) ==
    IF w.kind # "eval" \/ state.status # "pending" THEN [threw |-> "none", sent |-> <<>>]
    ELSE IF ~Has(reg, w.from) THEN [threw |-> "unhandled rejection", sent |-> <<>>]
    ELSE [threw |-> "none",
          sent |-> <<Msg(w.from, "EVAL_RESPONSE", w.nonce, Undef, val)>>]

\* the .then callback of the EVAL case, run when its promise resolves with val
evalRelay(reg, w, state, val) ==
    IF w.kind # "eval" \/ state.status # "pending" THEN [threw |-> "none", sent |-> <<>>]
    ELSE IF ~Has(reg, w.from) THEN [threw |-> "unhandled rejection", sent |-> <<>>]
    ELSE [threw |-> "none",
          sent |-> <<Msg(w.from, "EVAL_RESPONSE", w.fromNonce, Undef, val)>>]

\* a bug variant of the reply cases: the entry is used without the test for its absence
ReplyUnchecked(type, nonce, val) ==
    /\ pc # "init"
    /\ IF nonce \notin DOMAIN promises
       THEN /\ ret' = [Ret(type, "TypeError", Undef) EXCEPT !.nonce = nonce]
            /\ sent' = <<>>
            /\ UNCHANGED <<promises, requests>>
       ELSE LET w == promises[nonce]
                settled == resolve(clearTimeout(requests, w), w, val) IN
            /\ promises' = mapDelete(promises, nonce)
            /\ requests' = collect(promises', settled)
            /\ sent' = evalRelay(registry, w, requests[w], val).sent
            /\ ret' = [Ret(type, evalRelay(registry, w, requests[w], val).threw, Undef)
                       EXCEPT !.nonce = nonce, !.settled = settled[w]]
    /\ UNCHANGED <<options, pc, registry, connectQueue, pushed, lastAllowed, readySince, gate, now, timeline, calls, handlerVars>>

\* the cases RESULT_PAYLOAD, SHARD_INFO, WORKER_INFO and EVAL_RESPONSE
Reply(type, nonce, val) ==
    /\ pc # "init"
    /\ IF nonce \notin DOMAIN promises
       THEN /\ ret' = [Ret(type, "none", Undef) EXCEPT !.nonce = nonce]
            /\ sent' = <<>>
            /\ UNCHANGED <<promises, requests>>
       ELSE LET w == promises[nonce]
                settled == resolve(clearTimeout(requests, w), w, val) IN
            /\ promises' = mapDelete(promises, nonce)
            /\ requests' = collect(promises', settled)
            /\ sent' = evalRelay(registry, w, requests[w], val).sent
            /\ ret' = [Ret(type, evalRelay(registry, w, requests[w], val).threw, Undef)
                       EXCEPT !.nonce = nonce, !.settled = settled[w]]
    /\ UNCHANGED <<options, pc, registry, connectQueue, pushed, lastAllowed, readySince, gate, now, timeline, calls, handlerVars>>

HandleResultPayload(nonce) == Reply("RESULT_PAYLOAD", nonce, ValTrue)

HandleShardInfo(nonce, data) == Reply("SHARD_INFO", nonce, data)

HandleWorkerInfo(nonce, data) == Reply("WORKER_INFO", nonce, data)

HandleEvalResponse(nonce, response) == Reply("EVAL_RESPONSE", nonce, response)

\* a bug variant of the calls below: the handle is tested only after the promise is stored
RequestCheckLate(op, arg, kind, large, workerId, type, shardId) ==
    /\ Cardinality(DOMAIN requests) < MaxRequests
    /\ \E nonce \in generateNonce(large, promises) :
         LET p == generateSendPromise(promises, requests, nonce, kind, Undef, NoNonce) IN
         /\ promises' = p.promises
         /\ requests' = p.requests
         /\ IF ~Has(registry, workerId)
            THEN ret' = Ret(op, "Worker doesnt exist", arg) /\ sent' = <<>>
            ELSE /\ ret' = [Ret(op, "none", arg) EXCEPT !.nonce = nonce]
                 /\ sent' = <<Msg(workerId, type, nonce, shardId, NoValue)>>
    /\ UNCHANGED <<options, pc, registry, connectQueue, pushed, lastAllowed, readySince, gate, now, timeline, calls, handlerVars>>

\* the common tail of send, getShardInfo and getWorkerInfo once the worker id is known
Request(op, arg, kind, large, workerId, type, shardId) ==
    IF ~Has(registry, workerId)
    THEN /\ ret' = Ret(op, "Worker doesnt exist", arg)
         /\ sent' = <<>>
         /\ Quiet
    ELSE /\ Cardinality(DOMAIN requests) < MaxRequests
         /\ \E nonce \in generateNonce(large, promises) :
              LET p == generateSendPromise(promises, requests, nonce, kind, Undef, NoNonce) IN
              /\ sent' = <<Msg(workerId, type, nonce, shardId, NoValue)>>
              /\ promises' = p.promises
              /\ requests' = p.requests
              /\ ret' = [Ret(op, "none", arg) EXCEPT !.nonce = nonce]
         /\ UNCHANGED <<options, pc, registry, connectQueue, pushed, lastAllowed, readySince, gate, now, timeline, calls, handlerVars>>

\* send(data, shardId)
Send(shardId) ==
    /\ pc # "init"
    /\ LET c == calculateWorkerId(options, shardId) IN
       IF c.threw # "none"
       THEN ret' = Ret("send", c.threw, shardId) /\ sent' = <<>> /\ Quiet
       ELSE Request("send", shardId, "send", TRUE, c.value, "SEND_PAYLOAD", shardId)

\* getShardInfo(shardId)
GetShardInfo(shardId) ==
    /\ pc # "init"
    /\ LET c == calculateWorkerId(options, shardId) IN
       IF c.threw # "none"
       THEN ret' = Ret("getShardInfo", c.threw, shardId) /\ sent' = <<>> /\ Quiet
       ELSE Request("getShardInfo", shardId, "shardInfo", FALSE, c.value, "SHARD_INFO", shardId)

\* getWorkerInfo(workerId)
GetWorkerInfo(workerId) ==
    /\ pc # "init"
    /\ Request("getWorkerInfo", workerId, "workerInfo", TRUE, workerId, "WORKER_INFO", Undef)

\* case EVAL: message {workerId, nonce, toWorkerId}
HandleEval(workerId, nonce, toWorkerId) ==
    /\ pc # "init"
    /\ IF ~Has(registry, toWorkerId)
       THEN /\ ret' = Ret("EVAL", "TypeError", toWorkerId)
            /\ sent' = <<>>
            /\ Quiet
       ELSE /\ Cardinality(DOMAIN requests) < MaxRequests
            /\ \E minted \in generateNonce(TRUE, promises) :
                 LET p == generateSendPromise(promises, requests, minted, "eval", workerId, nonce) IN
                 /\ sent' = <<Msg(toWorkerId, "EXECUTE_EVAL", minted, Undef, NoValue)>>
                 /\ promises' = p.promises
                 /\ requests' = p.requests
                 /\ ret' = [Ret("EVAL", "none", toWorkerId)
                            EXCEPT !.nonce = minted, !.workerId = workerId, !.msgNonce = nonce]
            /\ UNCHANGED <<options, pc, registry, connectQueue, pushed, lastAllowed, readySince, gate, now, timeline, calls, handlerVars>>

\* ------------------------------------------------------ cache and REST calls
\* an awaited collaborator call and the message it serves
Call(kind, workerId, nonce) == [kind |-> kind, workerId |-> workerId, nonce |-> nonce]

removeAt(seq, i) == SubSeq(seq, 1, i - 1) \o SubSeq(seq, i + 1, Len(seq))

\* what an awaited call settles with: the value it fulfils with or the error it rejects with
Outcomes == {[status |-> "resolved", value |-> d] : d \in Data}
            \cup {[status |-> "rejected", value |-> ErrorVal("request failed")]}

Awaited(outcome) == [Unsettled EXCEPT !.status = outcome.status, !.value = outcome.value]

\* case CACHE_REQUEST up to the await: the handle is tested, then the adapter is called
HandleCacheRequest(workerId, nonce) ==
    /\ pc = "running"
    /\ IF ~Has(registry, workerId)
       THEN /\ ret' = [Ret("CACHE_REQUEST", "Invalid request from unavailable worker", Undef)
                       EXCEPT !.workerId = workerId, !.msgNonce = nonce]
            /\ sent' = <<>>
            /\ Quiet
       ELSE /\ Len(calls) < MaxCalls
            /\ calls' = Append(calls, Call("cache", workerId, nonce))
            /\ ret' = [Ret("CACHE_REQUEST", "none", Undef)
                       EXCEPT !.workerId = workerId, !.msgNonce = nonce]
            /\ sent' = <<>>
            /\ UNCHANGED <<options, pc, registry, promises, requests, connectQueue, pushed,
                           lastAllowed, readySince, gate, now, timeline, handlerVars>>

\* case CACHE_REQUEST after the await: the result goes to the handle found before it
CacheSettled(i, outcome) ==
    /\ i \in DOMAIN calls
    /\ calls[i].kind = "cache"
    /\ calls' = removeAt(calls, i)
    /\ IF outcome.status = "rejected"
       THEN /\ sent' = <<>>
            /\ ret' = [Ret("cacheAdapter", "unhandled rejection", Undef)
                       EXCEPT !.workerId = calls[i].workerId, !.nonce = calls[i].nonce,
                              !.settled = Awaited(outcome)]
       ELSE /\ sent' = <<Msg(calls[i].workerId, "CACHE_RESULT", calls[i].nonce, Undef,
                             outcome.value)>>
            /\ ret' = [Ret("cacheAdapter", "none", Undef)
                       EXCEPT !.workerId = calls[i].workerId, !.nonce = calls[i].nonce,
                              !.settled = Awaited(outcome)]
    /\ UNCHANGED <<options, pc, registry, promises, requests, connectQueue, pushed,
                   lastAllowed, readySince, gate, now, timeline, handlerVars>>

\* case WORKER_API_REQUEST up to the await: rest.request is called first
HandleWorkerApiRequest(workerId, nonce) ==
    /\ pc = "running"
    /\ Len(calls) < MaxCalls
    /\ calls' = Append(calls, Call("rest", workerId, nonce))
    /\ ret' = [Ret("WORKER_API_REQUEST", "none", Undef)
               EXCEPT !.workerId = workerId, !.msgNonce = nonce]
    /\ sent' = <<>>
    /\ UNCHANGED <<options, pc, registry, promises, requests, connectQueue, pushed,
                   lastAllowed, readySince, gate, now, timeline, handlerVars>>

\* case WORKER_API_REQUEST after the await: the handle is looked up only now
RestSettled(i, outcome) ==
    /\ i \in DOMAIN calls
    /\ calls[i].kind = "rest"
    /\ calls' = removeAt(calls, i)
    /\ IF outcome.status = "rejected"
       THEN /\ sent' = <<>>
            /\ ret' = [Ret("rest.request", "unhandled rejection", Undef)
                       EXCEPT !.workerId = calls[i].workerId, !.nonce = calls[i].nonce,
                              !.settled = Awaited(outcome)]
       ELSE IF ~Has(registry, calls[i].workerId)
       THEN /\ sent' = <<>>
            /\ ret' = [Ret("rest.request", "TypeError", Undef)
                       EXCEPT !.workerId = calls[i].workerId, !.nonce = calls[i].nonce,
                              !.settled = Awaited(outcome)]
       ELSE /\ sent' = <<Msg(calls[i].workerId, "API_RESPONSE", calls[i].nonce, Undef,
                             outcome.value)>>
            /\ ret' = [Ret("rest.request", "none", Undef)
                       EXCEPT !.workerId = calls[i].workerId, !.nonce = calls[i].nonce,
                              !.settled = Awaited(outcome)]
    /\ UNCHANGED <<options, pc, registry, promises, requests, connectQueue, pushed,
                   lastAllowed, readySince, gate, now, timeline, handlerVars>>

\* ----------------------------------------------------------- ready barrier
\* this.get(workerId)!.ready = true
markReady(reg, id) ==
    [k \in DOMAIN reg |-> IF reg[k].id = id THEN [reg[k] EXCEPT !.ready = TRUE] ELSE reg[k]]

\* [...this.values()].every(w => w.ready)
everyReady(reg) == \A k \in DOMAIN reg : reg[k].ready

\* a bug variant of the forEach below: the flags are left set
clearReadyForgotten(reg) == reg

\* this.forEach(w => { delete w.ready })
clearReady(reg) == [k \in DOMAIN reg |-> [reg[k] EXCEPT !.ready = FALSE]]

\* a bug variant of botReady: the key inserted last is taken
botReadyLast(reg) ==
    IF Len(reg) = 0 THEN <<>>
    ELSE <<Msg(reg[Len(reg)].id, "BOT_READY", NoNonce, Undef, NoValue)>>

\* this.get(this.keys().next().value)?.postMessage({type: 'BOT_READY'})
botReady(reg) ==
    IF Len(reg) = 0 THEN <<>> ELSE <<Msg(reg[1].id, "BOT_READY", NoNonce, Undef, NoValue)>>

\* case WORKER_READY
HandleWorkerReady(workerId) ==
    /\ pc # "init"
    /\ IF ~Has(registry, workerId)
       THEN /\ ret' = Ret("WORKER_READY", "TypeError", workerId)
            /\ sent' = <<>>
            /\ UNCHANGED <<registry, readySince>>
       ELSE /\ ret' = Ret("WORKER_READY", "none", workerId)
            /\ IF everyReady(markReady(registry, workerId))
               THEN /\ sent' = botReady(markReady(registry, workerId))
                    /\ registry' = clearReady(markReady(registry, workerId))
                    /\ readySince' = {}
               ELSE /\ sent' = <<>>
                    /\ registry' = markReady(registry, workerId)
                    /\ readySince' = readySince \cup {workerId}
    /\ UNCHANGED <<options, pc, promises, requests, connectQueue, pushed, lastAllowed, gate, now, timeline, calls, handlerVars>>

\* ------------------------------------------------------------ connect queue
\* ConnectQueue.push(action): appended behind the actions already waiting
connectQueuePush(queue, action) == Append(queue, action)

\* a bug variant of spawn: the callback is put in front of the waiting ones
spawnInFront(queue, workerId, shardId, ticket) ==
    <<[workerId |-> workerId, shardId |-> shardId, ticket |-> ticket]>> \o queue

\* spawn(workerId, shardId): the callback closes over both ids
spawn(queue, workerId, shardId, ticket) ==
    connectQueuePush(queue, [workerId |-> workerId, shardId |-> shardId, ticket |-> ticket])

\* a bug variant of the callback below: the two ids are taken in the wrong order
allowConnectSwapped(reg, action) ==
    IF ~Has(reg, action.workerId) THEN <<>>
    ELSE <<Msg(action.shardId, "ALLOW_CONNECT", NoNonce, action.workerId, NoValue)>>

\* the body of the callback pushed by spawn
allowConnect(reg, action) ==
    IF ~Has(reg, action.workerId) THEN <<>>
    ELSE <<Msg(action.workerId, "ALLOW_CONNECT", NoNonce, action.shardId, NoValue)>>

\* case CONNECT_QUEUE
HandleConnectQueue(workerId, shardId) ==
    /\ pc # "init"
    /\ pushed < MaxPushes
    /\ connectQueue' = spawn(connectQueue, workerId, shardId, pushed + 1)
    /\ pushed' = pushed + 1
    /\ timeline' = [timeline EXCEPT !.pushes = Append(@, now)]
    /\ sent' = <<>>
    /\ ret' = [Ret("CONNECT_QUEUE", "none", pushed + 1)
               EXCEPT !.workerId = workerId, !.shardId = shardId]
    /\ UNCHANGED <<options, pc, registry, promises, requests, lastAllowed, readySince, gate,
                   now, calls, handlerVars>>

\* an action can be started: one waits and an admission is free
canStart(g, queue) == queue # <<>> /\ g.remaining > 0

\* the queue takes a free admission at time t; it becomes free again one interval later
admit(g, t) ==
    [g EXCEPT !.remaining = @ - 1, !.refills = Append(@, t + g.intervalTime)]

\* the admissions whose interval has elapsed at time t are free again
refill(g, t) ==
    [g EXCEPT !.remaining = @ + Cardinality({k \in DOMAIN g.refills : g.refills[k] <= t}),
              !.refills = SelectSeq(@, LAMBDA r : r > t)]

\* the queue starts the action that has waited longest, once, as soon as an admission is free
ConnectQueueShift ==
    /\ canStart(gate, connectQueue)
    /\ connectQueue' = Tail(connectQueue)
    /\ gate' = admit(gate, now)
    /\ timeline' = [timeline EXCEPT !.starts = Append(@, now)]
    /\ sent' = allowConnect(registry, Head(connectQueue))
    /\ lastAllowed' = IF allowConnect(registry, Head(connectQueue)) = <<>>
                      THEN lastAllowed ELSE Head(connectQueue).ticket
    /\ ret' = [Ret("connectQueue", "none", Head(connectQueue).ticket)
               EXCEPT !.workerId = Head(connectQueue).workerId,
                      !.shardId = Head(connectQueue).shardId]
    /\ UNCHANGED <<options, pc, registry, promises, requests, pushed, readySince, now, calls, handlerVars>>

\* the clock granularity: half of the queue interval
TickMs == intervalTime \div 2

\* time passes while no action can be started, and elapsed admissions are returned
Tick ==
    /\ pc # "init"
    /\ ~canStart(gate, connectQueue)
    /\ now < MaxTicks * TickMs
    /\ now' = now + TickMs
    /\ gate' = refill(gate, now + TickMs)
    /\ sent' = <<>>
    /\ ret' = Ret("tick", "none", Undef)
    /\ UNCHANGED <<options, pc, registry, promises, requests, connectQueue, pushed,
                   lastAllowed, readySince, timeline, calls, handlerVars>>

\* ------------------------------------------------------------ event handler
\* the frame of an EventHandler step: the WorkerManager is not touched
ManagerQuiet ==
    /\ sent' = <<>>
    /\ UNCHANGED <<options, pc, registry, promises, requests, connectQueue, pushed,
                   lastAllowed, readySince, gate, now, timeline, calls>>

\* gateway events (RAW has no cache forward before run) and custom events
GatewayNames == {"READY", "RAW"}
CustomNames == {"botReady"}

\* an event file: its data.name and data.once
EventFiles == [name : GatewayNames \cup CustomNames, once : BOOLEAN]

\* a freshly imported event object: fired is undefined, run was never invoked
newEvent(file) == [name |-> file.name, once |-> file.once, fired |-> FALSE, runs |-> 0]

\* the loop of load(): each instance is stored under its name, a later one replacing an
\* earlier one of the same name
RECURSIVE loadFrom(_, _, _)
loadFrom(vals, objs, instances) ==
    IF instances = <<>> THEN [values |-> vals, objects |-> objs]
    ELSE loadFrom(mapSet(vals, Head(instances).name, Len(objs) + 1),
                  Append(objs, newEvent(Head(instances))),
                  Tail(instances))

\* load(eventsDir, instances)
Load(instances) ==
    /\ Len(objects) + Len(instances) <= MaxObjects
    /\ values' = loadFrom(values, objects, instances).values
    /\ objects' = loadFrom(values, objects, instances).objects
    /\ invoked' = <<>>
    /\ ret' = Ret("load", "none", Len(instances))
    /\ UNCHANGED tasks
    /\ ManagerQuiet

\* reload(name): the same file is imported again and the new object replaces the stored one
Reload(name) ==
    /\ name \in DOMAIN values
    /\ Len(objects) < MaxObjects
    /\ objects' = Append(objects, newEvent([name |-> name,
                                             once |-> objects[values[name]].once]))
    /\ values' = mapSet(values, name, Len(objects) + 1)
    /\ invoked' = <<"magicImport">>
    /\ ret' = [Ret("reload", "none", Undef) EXCEPT !.name = name]
    /\ UNCHANGED tasks
    /\ ManagerQuiet

\* a bug variant of the lines below: the flag is tested but never set
testAndSetForgotten(event) ==
    [skip |-> event.once /\ event.fired, event |-> event]

\* if (Event.data.once && Event.fired) return ...; Event.fired = true; no await in between
testAndSet(event) ==
    [skip |-> event.once /\ event.fired, event |-> [event EXCEPT !.fired = TRUE]]

\* Event.run(...) is invoked on the object the call found when it started; the
\* invocations are counted for the objects whose data.once is set
invokeRun(objs, id) == IF objs[id].once THEN [objs EXCEPT ![id].runs = @ + 1] ELSE objs

\* a suspended call: which method, for which name, on which event object, at which await
Task(fn, name, id, at) == [fn |-> fn, name |-> name, event |-> id, at |-> at]

\* runEvent(name, client, packet, shardId) up to its first await
RunEvent(name) ==
    /\ ret' = [Ret("runEvent", "none", Undef) EXCEPT !.name = name]
    /\ UNCHANGED values
    /\ IF name \notin DOMAIN values
       THEN /\ invoked' = <<"cache.onPacket">>
            /\ UNCHANGED <<objects, tasks>>
       ELSE IF testAndSet(objects[values[name]]).skip
       THEN /\ invoked' = <<"cache.onPacket">>
            /\ UNCHANGED <<objects, tasks>>
       ELSE /\ Len(tasks) < MaxTasks
            /\ objects' = [objects EXCEPT ![values[name]] = testAndSet(@).event]
            /\ invoked' = <<"RawEvents.hook">>
            /\ tasks' = Append(tasks, Task("runEvent", name, values[name], "hook"))
    /\ ManagerQuiet

\* runEvent after await RawEvents[name]: the cache forward, or for RAW the run itself
HookSettled(i, ok) ==
    /\ i \in DOMAIN tasks
    /\ tasks[i].at = "hook"
    /\ UNCHANGED values
    /\ IF ~ok
       THEN /\ tasks' = removeAt(tasks, i)
            /\ invoked' = <<"onFail">>
            /\ UNCHANGED objects
       ELSE IF tasks[i].name # "RAW"
       THEN /\ tasks' = [tasks EXCEPT ![i].at = "cache"]
            /\ invoked' = <<"cache.onPacket">>
            /\ UNCHANGED objects
       ELSE /\ tasks' = [tasks EXCEPT ![i].at = "run"]
            /\ objects' = invokeRun(objects, tasks[i].event)
            /\ invoked' = <<"Event.run">>
    /\ ret' = [Ret("runEvent (hook)", "none", Undef) EXCEPT !.name = tasks[i].name]
    /\ ManagerQuiet

\* runEvent after await cache.onPacket: Event.run is invoked
PacketCached(i, ok) ==
    /\ i \in DOMAIN tasks
    /\ tasks[i].at = "cache"
    /\ UNCHANGED values
    /\ IF ~ok
       THEN /\ tasks' = removeAt(tasks, i)
            /\ invoked' = <<"onFail">>
            /\ UNCHANGED objects
       ELSE /\ tasks' = [tasks EXCEPT ![i].at = "run"]
            /\ objects' = invokeRun(objects, tasks[i].event)
            /\ invoked' = <<"Event.run">>
    /\ ret' = [Ret("runEvent (cache)", "none", Undef) EXCEPT !.name = tasks[i].name]
    /\ ManagerQuiet

\* runCustom(name, ...args) up to its await: Event.run and collectors.run are both called
RunCustom(name) ==
    /\ ret' = [Ret("runCustom", "none", Undef) EXCEPT !.name = name]
    /\ UNCHANGED values
    /\ IF name \notin DOMAIN values
       THEN /\ invoked' = <<"collectors.run">>
            /\ UNCHANGED <<objects, tasks>>
       ELSE IF testAndSet(objects[values[name]]).skip
       THEN /\ invoked' = <<"collectors.run">>
            /\ UNCHANGED <<objects, tasks>>
       ELSE /\ Len(tasks) < MaxTasks
            /\ objects' = invokeRun([objects EXCEPT ![values[name]] = testAndSet(@).event],
                                    values[name])
            /\ invoked' = <<"Event.run", "collectors.run">>
            /\ tasks' = Append(tasks, Task("runCustom", name, values[name], "run"))
    /\ ManagerQuiet

\* after await Event.run (runEvent) or await Promise.all (runCustom): the call ends,
\* through onFail when the awaited promise rejected
RunSettled(i, ok) ==
    /\ i \in DOMAIN tasks
    /\ tasks[i].at = "run"
    /\ tasks' = removeAt(tasks, i)
    /\ invoked' = IF ok THEN <<>> ELSE <<"onFail">>
    /\ ret' = [Ret(tasks[i].fn \o " (run)", "none", Undef) EXCEPT !.name = tasks[i].name]
    /\ UNCHANGED <<values, objects>>
    /\ ManagerQuiet

\* ---------------------------------------------------------- specifications
\* the ids a call or a worker message can carry: those of RunOptions and one beyond
WorkerIds == 0..2
ShardIds == 0..4

\* the nonces an EVAL message can carry: one the manager can mint too, one it cannot
EvalNonces == {<<1, 1>>, <<0, 0>>}

\* the option structures the message protocol is explored with: shards 1 and 2 on workers
\* 0 and 1 of 3 configured workers, and one that start() refuses
RunOptions ==
    {[totalShards |-> 3, shardStart |-> 1, shardEnd |-> 3,
      shardsPerWorker |-> 1, workers |-> 3, infoShards |-> 3, maxConcurrency |-> 1],
     [totalShards |-> 3, shardStart |-> Undef, shardEnd |-> Undef,
      shardsPerWorker |-> 2, workers |-> 1, infoShards |-> 3, maxConcurrency |-> 1]}

Init == InitCommon /\ options \in RunOptions

\* the same structures with every max_concurrency the gateway may report
QueueOptions ==
    {[o EXCEPT !.maxConcurrency = limit] : o \in RunOptions, limit \in 1..MaxConcurrency}

InitQueue == InitCommon /\ options \in QueueOptions

\* the CONNECT_QUEUE messages explored: from both registered workers and from an unknown one
ConnectRequests == {<<0, 1>>, <<1, 2>>, <<2, 3>>}

\* requests, replies and deadlines
NextRequests ==
    \/ Start
    \/ \E shardId \in ShardIds : Send(shardId)
    \/ \E shardId \in ShardIds : GetShardInfo(shardId)
    \/ \E workerId \in WorkerIds : GetWorkerInfo(workerId)
    \/ \E nonce \in Nonces : HandleResultPayload(nonce)
    \/ \E nonce \in Nonces, data \in Data : HandleShardInfo(nonce, data)
    \/ \E nonce \in Nonces, data \in Data : HandleWorkerInfo(nonce, data)
    \/ \E nonce \in Nonces, response \in Data : HandleEvalResponse(nonce, response)
    \/ \E workerId \in WorkerIds, nonce \in EvalNonces, toWorkerId \in WorkerIds :
          HandleEval(workerId, nonce, toWorkerId)
    \/ \E nonce \in Nonces : Timeout(nonce)

SpecRequests == Init /\ [][NextRequests]_vars

\* the deadline of an armed timer does elapse
SpecRequestsFair == SpecRequests /\ \A nonce \in Nonces : WF_vars(Timeout(nonce))

\* the ready barrier
NextReady ==
    \/ Start
    \/ \E workerId \in 0..MaxShards : HandleWorkerReady(workerId)

SpecReady == InitConfig /\ [][NextReady]_vars

\* cache and REST requests of workers
NextCalls ==
    \/ Start
    \/ \E workerId \in WorkerIds, nonce \in EvalNonces : HandleCacheRequest(workerId, nonce)
    \/ \E workerId \in WorkerIds, nonce \in EvalNonces : HandleWorkerApiRequest(workerId, nonce)
    \/ \E i \in 1..MaxCalls, outcome \in Outcomes : CacheSettled(i, outcome)
    \/ \E i \in 1..MaxCalls, outcome \in Outcomes : RestSettled(i, outcome)

SpecCalls == Init /\ [][NextCalls]_vars

\* the event files load() is given: one or two instances
Instances == {<<file>> : file \in EventFiles}
             \cup {<<first, second>> : first \in EventFiles, second \in EventFiles}

\* events: loading, reloading and overlapping runEvent and runCustom calls
NextEvents ==
    \/ \E instances \in Instances : Load(instances)
    \/ \E name \in GatewayNames \cup CustomNames : Reload(name)
    \/ \E name \in GatewayNames : RunEvent(name)
    \/ \E name \in CustomNames : RunCustom(name)
    \/ \E i \in 1..MaxTasks, ok \in BOOLEAN : HookSettled(i, ok)
    \/ \E i \in 1..MaxTasks, ok \in BOOLEAN : PacketCached(i, ok)
    \/ \E i \in 1..MaxTasks, ok \in BOOLEAN : RunSettled(i, ok)

SpecEvents == Init /\ [][NextEvents]_vars

\* the partitions prepareWorkers is called with: 1 to MaxWorkers groups of one shard,
\* counted from shard 0 or from shard 1
Partitions == {[k \in 1..n |-> <<first + k - 1>>] : n \in 1..MaxWorkers, first \in 0..1}

\* the registry under repeated prepareWorkers calls, and the ready barrier over it
NextWorkers ==
    \/ Start
    \/ \E shards \in Partitions : CallPrepareWorkers(shards)
    \/ \E workerId \in 0..MaxShards : HandleWorkerReady(workerId)

SpecWorkers == Init /\ [][NextWorkers]_vars

\* the connect queue
NextQueue ==
    \/ Start
    \/ \E request \in ConnectRequests : HandleConnectQueue(request[1], request[2])
    \/ ConnectQueueShift
    \/ Tick

SpecQueue == InitQueue /\ [][NextQueue]_vars

\* everything together
Next == NextRequests \/ NextCalls \/ NextReady \/ NextWorkers \/ NextQueue \/ NextEvents

Spec == Init /\ [][Next]_vars

\* ----------------------------------------------------------------- claims
Range(seq) == {seq[k] : k \in DOMAIN seq}

RECURSIVE Flatten(_)
Flatten(groups) == IF Len(groups) = 0 THEN <<>> ELSE Head(groups) \o Flatten(Tail(groups))

CountType(msgs, type) == Cardinality({k \in DOMAIN msgs : msgs[k].type = type})

ReplyTypes == {"RESULT_PAYLOAD", "SHARD_INFO", "WORKER_INFO", "EVAL_RESPONSE"}

\* C1: a promise the manager can still settle has been settled by nobody and has both its
\* table entry and its armed timer; the promise a reply or a deadline has just settled
\* was settled exactly once, by that reply or by that deadline, and its entry is gone.
C1_SettledAtMostOnce ==
    /\ \A w \in DOMAIN requests :
          /\ requests[w] = [Unsettled EXCEPT !.status = "pending", !.timer = TRUE]
          /\ w.nonce \in DOMAIN promises
          /\ promises[w.nonce] = w
    /\ \A n \in DOMAIN promises : promises[n] \in DOMAIN requests /\ promises[n].nonce = n
    /\ (ret.op \in ReplyTypes /\ ret.settled # Unsettled) =>
          /\ ret.settled.resolves = 1 /\ ret.settled.rejects = 0
          /\ ret.settled.status = "resolved"
          /\ ~ret.settled.timer
          /\ ret.nonce \notin DOMAIN promises
    /\ ret.op = "timeout" =>
          /\ ret.settled.resolves = 0 /\ ret.settled.rejects = 1
          /\ ret.settled.status = "rejected"
          /\ ret.nonce \notin DOMAIN promises

\* a deadline has just rejected one request while another one is still pending
C1_Witness ==
    /\ ret.op = "timeout" /\ ret.settled.status = "rejected"
    /\ DOMAIN requests # {}

\* C2: a handled WORKER_READY posts exactly one BOT_READY when, with it, every registered
\* worker has reported since the previous BOT_READY, and posts none otherwise.
C2_ReadyBarrier ==
    [][(ret'.op = "WORKER_READY" /\ ret'.threw = "none") =>
          CountType(sent', "BOT_READY") =
             (IF Keys(registry) \subseteq (readySince \cup {ret'.arg}) THEN 1 ELSE 0)]_vars

\* the last of at least two workers reported and BOT_READY went out
C2_Witness ==
    /\ ret.op = "WORKER_READY" /\ ret.threw = "none"
    /\ Len(registry) >= 2
    /\ CountType(sent, "BOT_READY") = 1

\* C3: the groups of prepareSpaces, flattened, are shardStart .. shardEnd-1 in increasing
\* order; every group but the last has shardsPerWorker elements, the last has 1..shardsPerWorker.
C3_PartitionExact ==
    ret.op = "prepareSpaces" =>
       LET groups == ret.spaces IN
       /\ Flatten(groups) = [k \in 1..(shardEnd(options) - shardStart(options)) |->
                                shardStart(options) + k - 1]
       /\ \A g \in 1..(Len(groups) - 1) : Len(groups[g]) = shardsPerWorker(options)
       /\ Len(groups) > 0
       /\ Len(groups[Len(groups)]) \in 1..shardsPerWorker(options)

\* a range that starts above 0 and ends with a short group
C3_Witness ==
    /\ ret.op = "prepareSpaces"
    /\ shardStart(options) > 0
    /\ Len(ret.spaces) >= 2
    /\ Len(ret.spaces[Len(ret.spaces)]) < shardsPerWorker(options)

\* C4: after a successful start(), calculateWorkerId of a shard id that a worker was
\* created with returns the id of that worker.
C4_LeftInverse ==
    (pc = "running" /\ ret.op = "calculateWorkerId") =>
       \A k \in DOMAIN registry :
          ret.arg \in Range(registry[k].shards) =>
             ret.threw = "none" /\ ret.id = registry[k].id

\* C5: when the partition has more groups than the configured worker count, start() has
\* thrown with nothing created and nothing posted; the registry never exceeds that count.
C5_FailFast ==
    pc # "init" =>
       /\ Len(prepareSpaces(options)) > workers(options) =>
             pc = "failed" /\ registry = <<>> /\ (ret.op = "start" => sent = <<>>)
       /\ Len(registry) <= workers(options)

TargetMissing(op, arg) ==
    IF op = "getWorkerInfo" THEN ~Has(registry, arg)
    ELSE /\ calculateWorkerId(options, arg).threw = "none"
         /\ ~Has(registry, calculateWorkerId(options, arg).value)

\* C6: send, getShardInfo or getWorkerInfo to a worker id without a handle throws
\* "Worker doesnt exist", changes neither the pending table nor any promise, posts nothing.
C6_MissingWorker ==
    [][(ret'.op \in {"send", "getShardInfo", "getWorkerInfo"} /\ TargetMissing(ret'.op, ret'.arg)) =>
          /\ ret'.threw = "Worker doesnt exist"
          /\ promises' = promises
          /\ requests' = requests
          /\ sent' = <<>>]_vars

\* a send failed on a missing worker while a request was pending
C6_Witness ==
    /\ ret.op = "send" /\ ret.threw = "Worker doesnt exist"
    /\ DOMAIN promises # {}

\* C7: a reply whose nonce is not in the pending table throws nothing, settles nothing,
\* posts nothing and leaves the pending table and the registry as they were.
C7_StaleReply ==
    [][(ret'.op \in ReplyTypes /\ ret'.nonce \notin DOMAIN promises) =>
          /\ ret'.threw = "none"
          /\ ret'.settled = Unsettled
          /\ promises' = promises
          /\ requests' = requests
          /\ registry' = registry
          /\ sent' = <<>>]_vars

\* a reply was dropped while another nonce was pending
C7_Witness ==
    /\ ret.op \in ReplyTypes /\ ret.settled = Unsettled
    /\ DOMAIN promises # {}
    /\ ret.nonce \notin DOMAIN promises

\* C8: every entry of the pending table is eventually removed, and the deadline that
\* fires removes the entry and rejects with the timeout message of the operation.
C8_EntryRemoved ==
    /\ \A n \in Nonces : []<>(n \notin DOMAIN promises)
    /\ [][ret'.op = "timeout" =>
             /\ ret'.settled.status = "rejected"
             /\ \E w \in DOMAIN requests :
                   /\ w.nonce = ret'.nonce /\ requests[w].timer
                   /\ ret'.settled.value = ErrorVal(timeoutMessage(w.kind))
             /\ ret'.nonce \notin DOMAIN promises']_vars

\* a deadline fired on a request that no reply answered
C8_Witness ==
    /\ ret.op = "timeout"
    /\ ret.settled.status = "rejected"
    /\ ret.settled.value = ErrorVal("Get shard info timeout")

\* C9: the nonce of a newly stored promise is not a key of the pending table at that
\* moment, and no step replaces the promise stored under a key.
C9_FreshNonce ==
    [][/\ (ret'.op \in {"send", "getShardInfo", "getWorkerInfo", "EVAL"} /\ ret'.threw = "none") =>
             /\ ret'.nonce \notin DOMAIN promises
             /\ DOMAIN promises' = DOMAIN promises \cup {ret'.nonce}
             /\ promises'[ret'.nonce] \in DOMAIN requests' \ DOMAIN requests
       /\ \A n \in DOMAIN promises :
             n \in DOMAIN promises' => promises'[n] = promises[n]]_vars

\* a short nonce was stored while the long nonce of the same uuid prefix was pending
C9_Witness ==
    /\ ret.op = "getShardInfo" /\ ret.threw = "none"
    /\ \E n \in DOMAIN promises : Len(n) = 2 /\ <<n[1]>> = ret.nonce

\* C10: the callbacks that post ALLOW_CONNECT do so in the order of their CONNECT_QUEUE
\* messages: each one was pushed later than the one that posted before it.
C10_FifoStart ==
    [][(ret'.op = "connectQueue" /\ sent' # <<>>) =>
          /\ ret'.arg > lastAllowed
          /\ lastAllowed' = ret'.arg]_vars

\* two callbacks pushed for different workers have both posted their ALLOW_CONNECT
C10_Witness ==
    /\ ret.op = "connectQueue" /\ sent # <<>>
    /\ lastAllowed = 2
    /\ sent[1].to # 0

\* the number of starts in the window [from, from + len)
StartsWithin(starts, from, len) ==
    Cardinality({k \in DOMAIN starts : from <= starts[k] /\ starts[k] < from + len})

\* C11: no window of 5500 ms holds more than max_concurrency starts of connect callbacks
\* (a window holding the most starts can be taken to begin at a start); with
\* max_concurrency 1, three callbacks pushed at time 0 start at 0, 5500 and 11000.
C11_RateWindow ==
    /\ \A i \in DOMAIN timeline.starts :
          StartsWithin(timeline.starts, timeline.starts[i], 5500) <= options.maxConcurrency
    /\ (/\ options.maxConcurrency = 1
        /\ Len(timeline.pushes) >= 3 /\ \A k \in 1..3 : timeline.pushes[k] = 0
        /\ Len(timeline.starts) >= 3) =>
          SubSeq(timeline.starts, 1, 3) = <<0, 5500, 11000>>

\* three callbacks pushed at time 0 under max_concurrency 1 have all been started
C11_Witness ==
    /\ options.maxConcurrency = 1
    /\ timeline.pushes = <<0, 0, 0>>
    /\ timeline.starts = <<0, 5500, 11000>>

\* C12: a CONNECT_QUEUE message posts nothing and adds one callback for its workerId and
\* shardId; when the queue starts a callback it is removed for good and posts exactly one
\* ALLOW_CONNECT, to that workerId with that shardId, or nothing when that worker has no
\* handle; no other step posts ALLOW_CONNECT or changes the queue.
C12_ConsumedOnce ==
    [][/\ ret'.op = "CONNECT_QUEUE" =>
             /\ sent' = <<>>
             /\ \A k \in DOMAIN connectQueue : connectQueue[k].ticket # ret'.arg
             /\ connectQueue' = Append(connectQueue,
                   [workerId |-> ret'.workerId, shardId |-> ret'.shardId, ticket |-> ret'.arg])
       /\ ret'.op = "connectQueue" =>
             /\ connectQueue # <<>>
             /\ ret'.arg = Head(connectQueue).ticket
             /\ connectQueue' = Tail(connectQueue)
             /\ \A k \in DOMAIN connectQueue' : connectQueue'[k].ticket # ret'.arg
             /\ sent' = IF Has(registry, Head(connectQueue).workerId)
                        THEN <<Msg(Head(connectQueue).workerId, "ALLOW_CONNECT", NoNonce,
                                   Head(connectQueue).shardId, NoValue)>>
                        ELSE <<>>
       /\ ret'.op \notin {"CONNECT_QUEUE", "connectQueue"} =>
             /\ connectQueue' = connectQueue
             /\ CountType(sent', "ALLOW_CONNECT") = 0]_vars

\* the callback of a worker without a handle ran after one that posted, and the queue is empty
C12_Witness ==
    /\ ret.op = "connectQueue" /\ sent = <<>>
    /\ ~Has(registry, ret.workerId)
    /\ lastAllowed > 0
    /\ connectQueue = <<>>

\* the smallest element of a non-empty set of ids
MinOf(ids) == CHOOSE x \in ids : \A y \in ids : x <= y

\* C13: the WORKER_READY with which every registered worker has reported posts BOT_READY
\* to one worker, the one with the smallest id in the registry, and to nobody else; no
\* other step posts BOT_READY.
C13_SmallestId ==
    [][/\ (/\ ret'.op = "WORKER_READY" /\ ret'.threw = "none"
           /\ Keys(registry) \subseteq (readySince \cup {ret'.arg})) =>
             sent' = <<Msg(MinOf(Keys(registry)), "BOT_READY", NoNonce, Undef, NoValue)>>
       /\ CountType(sent', "BOT_READY") > 0 =>
             /\ ret'.op = "WORKER_READY"
             /\ Keys(registry) \subseteq (readySince \cup {ret'.arg})]_vars

\* BOT_READY went out over a registry that a later prepareWorkers call had enlarged
C13_Witness ==
    /\ ret.op = "WORKER_READY" /\ CountType(sent, "BOT_READY") = 1
    /\ pc = "running"
    /\ Len(registry) > Len(prepareSpaces(options))

\* C16: calculateWorkerId either throws or returns an id from 0 to the worker count - 1.
C16_IdInRange ==
    (ret.op = "calculateWorkerId" /\ ret.threw = "none") =>
       0 <= ret.id /\ ret.id < workers(options)

\* C17: a call of prepareWorkers (start() makes one) leaves every stored handle as it is
\* and where it is, adds one handle, with the shards of its group, for each index of the
\* partition that has none, never holds two handles for one id, and posts exactly one
\* SPAWN_SHARDS to every index of the partition and nothing else.
C17_CreatedOnce ==
    [][(ret'.op \in {"prepareWorkers", "start"} /\ ret'.threw = "none") =>
          LET shards == ret'.spaces IN
          /\ Len(registry') >= Len(registry)
          /\ \A k \in DOMAIN registry : registry'[k] = registry[k]
          /\ Keys(registry') = Keys(registry) \cup (0..(Len(shards) - 1))
          /\ Cardinality(Keys(registry')) = Len(registry')
          /\ \A k \in (DOMAIN registry') \ (DOMAIN registry) :
                registry'[k].shards = shards[registry'[k].id + 1]
          /\ Len(sent') = Len(shards)
          /\ \A i \in 0..(Len(shards) - 1) :
                Cardinality({k \in DOMAIN sent' :
                                sent'[k].to = i /\ sent'[k].type = "SPAWN_SHARDS"}) = 1]_vars

\* a call over a longer partition created one worker and kept the two it found
C17_Witness ==
    /\ ret.op = "prepareWorkers"
    /\ Len(ret.spaces) = 3 /\ Len(registry) = 3
    /\ registry[1].shards # ret.spaces[1]
    /\ registry[3].shards = ret.spaces[3]

\* C20: between handlers, a registry with at least one worker never has the ready flag
\* of every worker set.
C20_NeverSatisfied ==
    Len(registry) >= 1 => ~everyReady(registry)

\* the last worker reported, BOT_READY went out and every flag is cleared again
C20_Witness ==
    /\ ret.op = "WORKER_READY" /\ CountType(sent, "BOT_READY") = 1
    /\ Len(registry) >= 2
    /\ \A k \in DOMAIN registry : ~registry[k].ready

\* C14: an EVAL from worker R with nonce n_R for worker T posts EXECUTE_EVAL to T under a
\* nonce not in the pending table and stores the wait under it; the EVAL_RESPONSE that
\* answers it in time posts one EVAL_RESPONSE to R, carrying n_R and the value of T; no
\* other step posts EVAL_RESPONSE.
C14_DoubleHop ==
    [][/\ (ret'.op = "EVAL" /\ ret'.threw = "none") =>
             /\ ret'.nonce \notin DOMAIN promises
             /\ sent' = <<Msg(ret'.arg, "EXECUTE_EVAL", ret'.nonce, Undef, NoValue)>>
             /\ ret'.nonce \in DOMAIN promises'
             /\ promises'[ret'.nonce] = Waiter("eval", ret'.nonce, ret'.workerId, ret'.msgNonce)
       /\ (/\ ret'.op = "EVAL_RESPONSE" /\ ret'.nonce \in DOMAIN promises
           /\ promises[ret'.nonce].kind = "eval"
           /\ Has(registry, promises[ret'.nonce].from)) =>
             sent' = <<Msg(promises[ret'.nonce].from, "EVAL_RESPONSE",
                           promises[ret'.nonce].fromNonce, Undef, ret'.settled.value)>>
       /\ CountType(sent', "EVAL_RESPONSE") > 0 =>
             /\ ret'.op \in ReplyTypes
             /\ ret'.nonce \in DOMAIN promises /\ ret'.nonce \notin DOMAIN promises'
             /\ promises[ret'.nonce].kind = "eval"]_vars

\* worker 1 answered in time and the reply went to worker 0 under the nonce worker 0 chose
C14_Witness ==
    /\ ret.op = "EVAL_RESPONSE"
    /\ Len(sent) = 1 /\ sent[1].type = "EVAL_RESPONSE"
    /\ sent[1].to = 0 /\ sent[1].nonce = <<0, 0>> /\ sent[1].nonce # ret.nonce
    /\ sent[1].data \in Data

\* C15: the REST call made for a WORKER_API_REQUEST of a registered worker ends with one
\* API_RESPONSE posted to that worker under the nonce of the request, carrying the
\* response when the call succeeded and the error when it failed; the request itself
\* starts exactly one call and posts nothing.
C15_ApiAnswered ==
    [][/\ (ret'.op = "WORKER_API_REQUEST" /\ Has(registry, ret'.workerId)) =>
             /\ calls' = Append(calls, Call("rest", ret'.workerId, ret'.msgNonce))
             /\ sent' = <<>>
       /\ (ret'.op = "rest.request" /\ Has(registry, ret'.workerId)) =>
             sent' = <<Msg(ret'.workerId, "API_RESPONSE", ret'.nonce, Undef,
                           ret'.settled.value)>>]_vars

\* C18: a CACHE_REQUEST or WORKER_API_REQUEST of a worker id without a handle throws at
\* once: no adapter or REST call is started, nothing is posted, and the pending table
\* and the registry stay as they were.
C18_UnknownWorker ==
    [][(/\ ret'.op \in {"CACHE_REQUEST", "WORKER_API_REQUEST"}
        /\ ~Has(registry, ret'.workerId)) =>
          /\ ret'.threw # "none"
          /\ calls' = calls
          /\ sent' = <<>>
          /\ promises' = promises
          /\ registry' = registry]_vars

\* the reply type that answers each kind of request
replyTypeOf(kind) ==
    CASE kind = "send" -> "RESULT_PAYLOAD"
      [] kind = "shardInfo" -> "SHARD_INFO"
      [] kind = "workerInfo" -> "WORKER_INFO"
      [] kind = "eval" -> "EVAL_RESPONSE"

\* C19: a reply settles the request stored under its nonce only when it is of the type
\* that answers that kind of request, and a send is resolved with true only.
C19_MatchingKind ==
    [][(ret'.op \in ReplyTypes /\ ret'.nonce \in DOMAIN promises) =>
          IF ret'.op = replyTypeOf(promises[ret'.nonce].kind)
          THEN promises[ret'.nonce].kind = "send" => ret'.settled.value = ValTrue
          ELSE /\ promises' = promises
               /\ requests' = requests
               /\ ret'.settled = Unsettled]_vars

\* C21: the run function of an event object whose data.once is set is invoked at most
\* once, however runEvent and runCustom calls for its name overlap; a call that finds the
\* object fired only forwards to the cache (runEvent) or to the collectors (runCustom):
\* it invokes nothing else, suspends nowhere and changes no event object.
C21_OnceRunsOnce ==
    /\ [](\A id \in DOMAIN objects : objects[id].once => objects[id].runs <= 1)
    /\ [][(/\ ret'.op \in {"runEvent", "runCustom"}
           /\ ret'.name \in DOMAIN values
           /\ objects[values[ret'.name]].once /\ objects[values[ret'.name]].fired) =>
             /\ invoked' = <<IF ret'.op = "runEvent" THEN "cache.onPacket"
                             ELSE "collectors.run">>
             /\ objects' = objects
             /\ tasks' = tasks]_vars

\* a runEvent call for a once event was only forwarded while an earlier call for the same
\* event object is suspended before its run, and another once event has run once
C21_Witness ==
    /\ ret.op = "runEvent" /\ invoked = <<"cache.onPacket">>
    /\ ret.name \in DOMAIN values
    /\ objects[values[ret.name]].once /\ objects[values[ret.name]].runs = 0
    /\ \E i \in DOMAIN tasks :
          tasks[i].event = values[ret.name] /\ tasks[i].at \in {"hook", "cache"}
    /\ \E id \in DOMAIN objects : objects[id].once /\ objects[id].runs = 1

====
